---------------------------- MODULE Spec2Model ----------------------------
(***************************************************************************)
(* Khmer TTS Telegram bot (src/main.py): the text chunker split_text, the  *)
(* voice pipeline create_male_voice_tts and the request handler            *)
(* tts_and_send.                                                           *)
(*                                                                         *)
(* A Python str is a sequence of one-character strings; Python indices are *)
(* 0-based, so the character at Python index k of t is t[k + 1].           *)
(***************************************************************************)
EXTENDS Integers, Sequences, FiniteSets, TLC

VARIABLES
    input,       \* split_text: the argument `text` as passed by the caller
    chunk_size,  \* split_text: the argument `chunk_size`
    pc,          \* position in split_text: "idle", "call", "loop", "done"
    text,        \* split_text: the local `text` (rebound to text.strip())
    start,       \* split_text: the local `start`
    end,         \* split_text: the local `end` of the last iteration
    best_split,  \* split_text: the local `best_split` of the last iteration
    chunks,      \* split_text: the list `chunks` / the returned list
    iters,       \* number of while-loop iterations executed so far
    ADVANCED_PROCESSING,  \* module flag set by the import block
    BASIC_PROCESSING,     \* module flag: "True", "False", or "unbound"
    audio_counter,        \* the global audio_counter
    tpc,             \* position in tts_and_send
    processing_msg,  \* tts_and_send: "sent" or "None"
    total_chunks,    \* tts_and_send: the local total_chunks
    i,               \* tts_and_send: the loop index of enumerate(chunks, start=1)
    mp3_path,        \* tts_and_send: the local mp3_path
    files_to_delete, \* tts_and_send: the list files_to_delete
    disk,            \* temporary files on disk: path -> audio content
    tmp_count,       \* number of temporary files made by tempfile.mkstemp
    removed,         \* the paths os.remove has been called on
    tts_log,         \* chunk indices handed to gTTS, in call order
    voice,           \* outcome of the last create_male_voice_tts call
    sent,            \* the send_audio calls that succeeded, in order
    exc              \* the exception tts_and_send caught, or "none"

split_vars == <<input, chunk_size, pc, text, start, end, best_split, chunks, iters>>

flag_vars == <<ADVANCED_PROCESSING, BASIC_PROCESSING>>

tts_vars == <<audio_counter, tpc, processing_msg, total_chunks, i, mp3_path,
              files_to_delete, disk, tmp_count, removed, tts_log, voice, sent, exc>>

vars == <<split_vars, flag_vars, tts_vars>>

---------------------------------------------------------------------------
(* Bounds of the model *)

\* longest input text of a direct split_text call
MaxLen == 5
\* largest positive chunk_size of a direct split_text call
MaxChunk == 4
\* chunk_size ranges down to -MaxNeg in the invalid-configuration runs
MaxNeg == 1
\* cap on loop iterations; a call with chunk_size >= 1 never reaches it
MaxIters == MaxLen + 2
\* a request text holds up to MaxBlocks blocks of CHUNK_SIZE characters
MaxBlocks == 2
\* a request starts with audio_counter at most MaxPriorAudio: the audio files
\* made by earlier requests of the process
MaxPriorAudio == 2

\* CHUNK_SIZE = 3000
CHUNK_SIZE == 3000

\* U+17D4 KHMER SIGN KHAN, U+17D5 BARIYOOSAN, U+17D6 CAMNUC PII KUUH,
\* U+17D7 LEK TOO, written by code point
KHAN == "U+17D4"
BARIYOOSAN == "U+17D5"
CAMNUC == "U+17D6"
LEKTOO == "U+17D7"

\* U+00A0 NO-BREAK SPACE: whitespace to str.strip(), but neither " " nor an
\* ending
NBSP == "U+00A0"

\* characters the input texts are drawn from
Alphabet == {"a", " ", ".", "\n", NBSP}

Texts == UNION {[1..n -> Alphabet] : n \in 0..MaxLen}

\* a request text: k blocks of CHUNK_SIZE - 1 letters and the character sep,
\* then one more letter
ReqText(k, sep) ==
    [j \in 1..(k * CHUNK_SIZE + 1) |->
        IF j = k * CHUNK_SIZE + 1 THEN "b"
        ELSE IF j % CHUNK_SIZE = 0 THEN sep ELSE "a"]

ReqTexts == {ReqText(k, sep) : k \in 0..MaxBlocks, sep \in {".", " ", "a"}}

---------------------------------------------------------------------------
(* Python str primitives *)

Min(a, b) == IF a < b THEN a ELSE b
Max(a, b) == IF a > b THEN a ELSE b

\* the characters str.strip() removes: every character c with c.isspace(),
\* those without a string escape written by code point
Whitespace ==
    {"\t", "\n", "U+000B", "\f", "\r", "U+001C", "U+001D", "U+001E", "U+001F", " ",
     "U+0085", "U+00A0", "U+1680", "U+2000", "U+2001", "U+2002", "U+2003", "U+2004",
     "U+2005", "U+2006", "U+2007", "U+2008", "U+2009", "U+200A", "U+2028", "U+2029",
     "U+202F", "U+205F", "U+3000"}

\* a slice bound clamped as Python clamps it: negative counts from the end
NormIdx(x, n) == IF x < 0 THEN Max(x + n, 0) ELSE Min(x, n)

\* t[a:b]
Slice(t, a, b) ==
    LET lo == NormIdx(a, Len(t))
        hi == NormIdx(b, Len(t))
    IN  IF lo >= hi THEN <<>> ELSE SubSeq(t, lo + 1, hi)

\* t.strip(): t from its first to its last character that is not whitespace
strip(t) ==
    IF \A k \in 1..Len(t) : t[k] \in Whitespace THEN <<>>
    ELSE LET lo == CHOOSE k \in 1..Len(t) :
                       t[k] \notin Whitespace /\ \A j \in 1..(k - 1) : t[j] \in Whitespace
             hi == CHOOSE k \in 1..Len(t) :
                       t[k] \notin Whitespace /\ \A j \in (k + 1)..Len(t) : t[j] \in Whitespace
         IN  SubSeq(t, lo, hi)

\* t.rfind(ch, a, b) for a one-character ch: the highest index in [a, b), or -1
rfind(t, ch, a, b) ==
    LET lo == NormIdx(a, Len(t))
        hi == NormIdx(b, Len(t))
        hits == {k \in lo..(hi - 1) : t[k + 1] = ch}
    IN  IF hits = {} THEN -1
        ELSE CHOOSE k \in hits : \A m \in hits : k >= m

---------------------------------------------------------------------------
(* split_text *)

\* the list `endings`, in the order the for loop tries them
endings == <<".", KHAN, "\n", "?", "!", BARIYOOSAN, CAMNUC, LEKTOO, ":", ";">>

\* end = min(start + chunk_size, len(text))
WindowEndOffByOne(t, s, cs) == Min(s + cs + 1, Len(t))
WindowEnd(t, s, cs) == Min(s + cs, Len(t))

\* the for loop over endings: the first ending whose last occurrence in the
\* window lies after start gives split_pos + 1; otherwise best_split stays end
EndingSplit(t, s, e) ==
    LET found == {k \in 1..Len(endings) : rfind(t, endings[k], s, e) > s}
    IN  IF found = {} THEN e
        ELSE LET k == CHOOSE x \in found : \A y \in found : x <= y
             IN  rfind(t, endings[k], s, e) + 1

\* "if best_split == end": the word-boundary fallback
WordSplitAtStart(t, s, e, bs) ==
    IF bs = e /\ rfind(t, " ", s, e) >= s THEN rfind(t, " ", s, e) ELSE bs
WordSplit(t, s, e, bs) ==
    IF bs = e /\ rfind(t, " ", s, e) > s THEN rfind(t, " ", s, e) ELSE bs

\* best_split as computed by one iteration of the while loop
BestSplit(t, s, e) ==
    IF e < Len(t) THEN WordSplit(t, s, e, EndingSplit(t, s, e)) ELSE e

\* chunk = text[start:best_split].strip()
Chunk(t, s, bs) == strip(Slice(t, s, bs))

\* start = best_split; if start == end: start += 1
NextStart(bs, e) == IF bs = e THEN bs + 1 ELSE bs

\* chunks after "if chunk: chunks.append(chunk)"
AppendChunk(cs, c) == IF c # <<>> THEN Append(cs, c) ELSE cs

---------------------------------------------------------------------------
(* Module flags and create_male_voice_tts *)

\* the import block: which of the two names it binds, given the libraries
\* installed ("advanced": pydub, librosa and soundfile; "basic": pydub only)
ImportFlags(libs) ==
    IF libs = "advanced" THEN [adv |-> TRUE, basic |-> "unbound"]
    ELSE IF libs = "basic" THEN [adv |-> FALSE, basic |-> "True"]
    ELSE [adv |-> FALSE, basic |-> "False"]

\* processing_type
ProcessingType(adv, basic) ==
    IF adv THEN "Advanced" ELSE IF basic = "True" THEN "Basic" ELSE "Standard"

\* the body of create_male_voice_tts after the two mkstemp calls, given the
\* outcome of gTTS (gtts_ok), of the librosa pipeline (adv_ok) and of the
\* pydub pipeline (basic_ok).  masculinize_voice_advanced and
\* masculinize_voice_basic catch their own exceptions and return False.
create_male_voice_tts(adv, basic, gtts_ok, adv_ok, basic_ok) ==
    IF ~gtts_ok THEN [raised |-> TRUE, exc |-> "gTTSError", voice |-> "none"]
    ELSE IF adv /\ adv_ok THEN [raised |-> FALSE, exc |-> "none", voice |-> "advanced"]
    ELSE IF basic = "unbound" THEN [raised |-> TRUE, exc |-> "NameError", voice |-> "none"]
    ELSE IF basic = "True" /\ basic_ok
         THEN [raised |-> FALSE, exc |-> "none", voice |-> "basic"]
    ELSE [raised |-> FALSE, exc |-> "none", voice |-> "original"]

\* tts = gTTS(text=text, ...); tts.save(original_path): one call per invocation
TtsInvokeTwice(log, k) == Append(Append(log, k), k)
TtsInvoke(log, k) == Append(log, k)

\* the caption of a delivery: the part number and count it shows (0, 0 when
\* the caption shows none)
CaptionZeroBased(k, total) ==
    IF total = 1 THEN [part |-> 0, of |-> 0] ELSE [part |-> k - 1, of |-> total]
Caption(k, total) ==
    IF total = 1 THEN [part |-> 0, of |-> 0] ELSE [part |-> k, of |-> total]

\* file f added to / removed from the disk
WriteFile(d, f, content) == [p \in DOMAIN d \cup {f} |-> IF p = f THEN content ELSE d[p]]
RemoveFiles(d, fs) == [p \in DOMAIN d \ fs |-> d[p]]

\* the content of a file tempfile.mkstemp has just made
EmptyFile == [chunk |-> 0, voice |-> "empty"]

\* what the two tempfile.mkstemp calls at the head of create_male_voice_tts
\* can do: both return, the first raises (OSError), or the first returns and
\* the second raises.  They stand before the try, so a raise leaves the
\* function at once, with no cleanup.
MkTempResults == {"ok", "first_raises", "second_raises"}

\* the disk after the mkstemp calls: every file a call made exists and is empty
MkTemp(d, orig, proc, res) ==
    IF res = "first_raises" THEN d
    ELSE IF res = "second_raises" THEN WriteFile(d, orig, EmptyFile)
    ELSE WriteFile(WriteFile(d, orig, EmptyFile), proc, EmptyFile)

\* the number of temporary files the mkstemp calls made
MkTempCount(res) ==
    IF res = "first_raises" THEN 0 ELSE IF res = "second_raises" THEN 1 ELSE 2

\* the paths create_male_voice_tts calls os.remove on once it is inside its
\* try: both files in its except clause when it raises, the original alone
\* before it returns
RemovedByVoice(raised, orig, proc) == IF raised THEN {orig, proc} ELSE {orig}

\* the paths the finally clause of tts_and_send calls os.remove on
FinallyPaths(ftd) == {ftd[k] : k \in 1..Len(ftd)}

NoVoice == [called |-> FALSE, gtts_ok |-> FALSE, raised |-> FALSE,
            exc |-> "none", voice |-> "none"]

---------------------------------------------------------------------------
(* Initial states *)

SplitIdle ==
    /\ text = input
    /\ start = 0
    /\ end = 0
    /\ best_split = 0
    /\ chunks = <<>>
    /\ iters = 0

\* the locals of tts_and_send before a request, no temporary file on disk
TtsIdle ==
    /\ processing_msg = "None"
    /\ total_chunks = 0
    /\ i = 0
    /\ mp3_path = 0
    /\ files_to_delete = <<>>
    /\ disk = <<>>
    /\ tmp_count = 0
    /\ removed = {}
    /\ tts_log = <<>>
    /\ voice = NoVoice
    /\ sent = <<>>
    /\ exc = "none"

Flags ==
    \E libs \in {"advanced", "basic", "none"} :
        /\ ADVANCED_PROCESSING = ImportFlags(libs).adv
        /\ BASIC_PROCESSING = ImportFlags(libs).basic

\* a direct call split_text(input, chunk_size) with a valid chunk_size
Init ==
    /\ input \in Texts
    /\ chunk_size \in 1..MaxChunk
    /\ pc = "call"
    /\ tpc = "none"
    /\ ADVANCED_PROCESSING = ImportFlags("none").adv
    /\ BASIC_PROCESSING = ImportFlags("none").basic
    /\ audio_counter = 0
    /\ SplitIdle
    /\ TtsIdle

\* the same call with an invalid chunk_size
InitCfg ==
    /\ input \in Texts
    /\ chunk_size \in (0 - MaxNeg)..0
    /\ pc = "call"
    /\ tpc = "none"
    /\ ADVANCED_PROCESSING = ImportFlags("none").adv
    /\ BASIC_PROCESSING = ImportFlags("none").basic
    /\ audio_counter = 0
    /\ SplitIdle
    /\ TtsIdle

\* a request tts_and_send(update, context, input); the handlers pass only
\* texts that are not empty; split_text is called with its default chunk_size
InitTTS ==
    /\ input \in ReqTexts
    /\ chunk_size = CHUNK_SIZE
    /\ pc = "idle"
    /\ tpc = "start"
    /\ audio_counter \in 0..MaxPriorAudio
    /\ Flags
    /\ SplitIdle
    /\ TtsIdle

---------------------------------------------------------------------------
(* split_text, step by step *)

\* text = text.strip(); if len(text) <= chunk_size: return [text];
\* chunks = []; start = 0
Enter ==
    /\ pc = "call"
    /\ text' = strip(input)
    /\ IF Len(text') <= chunk_size
       THEN /\ chunks' = <<text'>>
            /\ pc' = "done"
       ELSE /\ chunks' = <<>>
            /\ pc' = "loop"
    /\ start' = 0
    /\ UNCHANGED <<input, chunk_size, end, best_split, iters, flag_vars, tts_vars>>

\* one iteration of "while start < len(text)"
LoopIter ==
    /\ pc = "loop"
    /\ start < Len(text)
    /\ iters < MaxIters
    /\ end' = WindowEnd(text, start, chunk_size)
    /\ best_split' = BestSplit(text, start, end')
    /\ chunks' = AppendChunk(chunks, Chunk(text, start, best_split'))
    /\ start' = NextStart(best_split', end')
    /\ iters' = iters + 1
    /\ UNCHANGED <<input, chunk_size, pc, text, flag_vars, tts_vars>>

\* the loop condition fails: return chunks
Return ==
    /\ pc = "loop"
    /\ start >= Len(text)
    /\ pc' = "done"
    /\ UNCHANGED <<input, chunk_size, text, start, end, best_split, chunks, iters,
                   flag_vars, tts_vars>>

---------------------------------------------------------------------------
(* tts_and_send *)

\* the processing message is sent (or the send fails and processing_msg is
\* None), then split_text(text) is called
Begin ==
    /\ tpc = "start"
    /\ \E ok \in BOOLEAN : processing_msg' = IF ok THEN "sent" ELSE "None"
    /\ pc' = "call"
    /\ tpc' = "split"
    /\ UNCHANGED <<input, chunk_size, text, start, end, best_split, chunks, iters,
                   flag_vars, audio_counter, total_chunks, i, mp3_path,
                   files_to_delete, disk, tmp_count, removed, tts_log, voice, sent, exc>>

\* split_text returned: files_to_delete = []; total_chunks = len(chunks)
EnterTry ==
    /\ tpc = "split"
    /\ pc = "done"
    /\ files_to_delete' = <<>>
    /\ total_chunks' = Len(chunks)
    /\ i' = 0
    /\ tpc' = "for"
    /\ UNCHANGED <<split_vars, flag_vars, audio_counter, processing_msg, mp3_path,
                   disk, tmp_count, removed, tts_log, voice, sent, exc>>

\* the next chunk of the for loop: audio_counter += 1 and
\* mp3_path = create_male_voice_tts(chunk); files_to_delete.append(mp3_path).
\* The call makes its two temporary files first.  When a mkstemp call raises,
\* the exception leaves create_male_voice_tts before its try: gTTS is not
\* called and nothing is removed.  Otherwise, when the call raises it removes
\* both files, and when it returns it has removed the original and returns
\* the processed one.
CreateVoice ==
    /\ tpc = "for"
    /\ i < total_chunks
    /\ i' = i + 1
    /\ audio_counter' = audio_counter + 1
    /\ \E res \in MkTempResults, gtts_ok, adv_ok, basic_ok \in BOOLEAN :
        LET r == create_male_voice_tts(ADVANCED_PROCESSING, BASIC_PROCESSING,
                                       gtts_ok, adv_ok, basic_ok)
            original_path == tmp_count + 1
            processed_path == tmp_count + 2
            made == MkTemp(disk, original_path, processed_path, res)
            gone == RemovedByVoice(r.raised, original_path, processed_path)
        IN  /\ tmp_count' = tmp_count + MkTempCount(res)
            /\ IF res # "ok"
               THEN /\ ~gtts_ok /\ ~adv_ok /\ ~basic_ok
                    /\ voice' = [called |-> TRUE, gtts_ok |-> FALSE, raised |-> TRUE,
                                 exc |-> "OSError", voice |-> "none"]
                    /\ exc' = "OSError"
                    /\ tpc' = "except"
                    /\ disk' = made
                    /\ UNCHANGED <<tts_log, removed, mp3_path, files_to_delete>>
               ELSE /\ tts_log' = TtsInvoke(tts_log, i')
                    /\ voice' = [called |-> TRUE, gtts_ok |-> gtts_ok,
                                 raised |-> r.raised, exc |-> r.exc, voice |-> r.voice]
                    /\ removed' = removed \cup gone
                    /\ IF r.raised
                       THEN /\ exc' = r.exc
                            /\ tpc' = "except"
                            /\ disk' = RemoveFiles(made, gone)
                            /\ UNCHANGED <<mp3_path, files_to_delete>>
                       ELSE /\ mp3_path' = processed_path
                            /\ files_to_delete' = Append(files_to_delete, processed_path)
                            /\ disk' = RemoveFiles(
                                           WriteFile(made, processed_path,
                                                     [chunk |-> i', voice |-> r.voice]),
                                           gone)
                            /\ tpc' = "send"
                            /\ UNCHANGED exc
    /\ UNCHANGED <<split_vars, flag_vars, processing_msg, total_chunks, sent>>

\* open(mp3_path) and context.bot.send_audio(...): delivered, or an exception
SendAudio ==
    /\ tpc = "send"
    /\ \E ok \in BOOLEAN :
        IF ok
        THEN /\ sent' = Append(sent, [audio |-> disk[mp3_path],
                                      audio_id |-> audio_counter,
                                      caption |-> Caption(i, total_chunks),
                                      mode |-> ProcessingType(ADVANCED_PROCESSING,
                                                              BASIC_PROCESSING)])
             /\ tpc' = "for"
             /\ UNCHANGED exc
        ELSE /\ exc' = "SendError"
             /\ tpc' = "except"
             /\ UNCHANGED sent
    /\ UNCHANGED <<split_vars, flag_vars, audio_counter, processing_msg, total_chunks,
                   i, mp3_path, files_to_delete, disk, tmp_count, removed, tts_log,
                   voice>>

\* the for loop is exhausted: on to the finally clause
EndFor ==
    /\ tpc = "for"
    /\ i >= total_chunks
    /\ tpc' = "finally"
    /\ UNCHANGED <<split_vars, flag_vars, audio_counter, processing_msg, total_chunks,
                   i, mp3_path, files_to_delete, disk, tmp_count, removed, tts_log,
                   voice, sent, exc>>

\* except Exception: the error is logged and an error reply is attempted
Except ==
    /\ tpc = "except"
    /\ tpc' = "finally"
    /\ UNCHANGED <<split_vars, flag_vars, audio_counter, processing_msg, total_chunks,
                   i, mp3_path, files_to_delete, disk, tmp_count, removed, tts_log,
                   voice, sent, exc>>

\* finally: every path in files_to_delete is removed and the processing
\* message is deleted
Finally ==
    /\ tpc = "finally"
    /\ disk' = RemoveFiles(disk, FinallyPaths(files_to_delete))
    /\ removed' = removed \cup FinallyPaths(files_to_delete)
    /\ tpc' = "returned"
    /\ UNCHANGED <<split_vars, flag_vars, audio_counter, processing_msg, total_chunks,
                   i, mp3_path, files_to_delete, tmp_count, tts_log, voice, sent, exc>>

---------------------------------------------------------------------------
(* Specifications *)

Next == Enter \/ LoopIter \/ Return

\* direct calls of split_text with chunk_size >= 1
Spec == Init /\ [][Next]_vars

\* split_text runs without interruption: a call that can take a step takes it
FairSpec == Init /\ [][Next]_vars /\ WF_vars(Next)

\* direct calls of split_text with chunk_size <= 0
SpecCfg == InitCfg /\ [][Next]_vars

NextTTS ==
    \/ Begin
    \/ Enter
    \/ LoopIter
    \/ Return
    \/ EnterTry
    \/ CreateVoice
    \/ SendAudio
    \/ EndFor
    \/ Except
    \/ Finally

\* one request handled by tts_and_send
SpecTTS == InitTTS /\ [][NextTTS]_vars

---------------------------------------------------------------------------
(* Properties of split_text *)

\* the ending characters as a set
EndingChars == {endings[k] : k \in 1..Len(endings)}

\* the characters of t that are not whitespace, in order
NonWs(t) == SelectSeq(t, LAMBDA c : c \notin Whitespace)

\* the chunks written one after the other
RECURSIVE Flatten(_)
Flatten(cs) == IF cs = <<>> THEN <<>> ELSE Head(cs) \o Flatten(Tail(cs))

\* t holds no ending character and no space
NoSeparator(t) == \A k \in 1..Len(t) : t[k] \notin EndingChars \cup {" "}

\* the step just taken is an iteration of the while loop
LoopStep == pc = "loop" /\ iters' = iters + 1

\* C1: for chunk_size >= 1 the returned chunks hold every non-whitespace
\* character of the stripped input exactly once and in order: nothing but
\* whitespace is lost.
C1_CoversInput ==
    (pc = "done" /\ chunk_size >= 1) => NonWs(Flatten(chunks)) = NonWs(strip(input))

\* C2: for chunk_size > 0 every returned chunk has length <= chunk_size, or the
\* text has no delimiter and is returned whole as the single chunk; and the
\* result is not empty when the stripped input is not empty.
C2_Bounded ==
    (pc = "done" /\ chunk_size > 0) =>
        /\ \/ \A k \in 1..Len(chunks) : Len(chunks[k]) <= chunk_size
           \/ NoSeparator(strip(input)) /\ chunks = <<strip(input)>>
        /\ strip(input) # <<>> => chunks # <<>>

\* a text longer than chunk_size was split into several bounded chunks
C2_Witness ==
    /\ pc = "done"
    /\ Len(strip(input)) > chunk_size
    /\ Len(chunks) >= 2
    /\ \E k \in 1..Len(chunks) : Len(chunks[k]) = chunk_size

\* C3: a stripped text longer than chunk_size with no ending character and no
\* space is returned as one chunk equal to the whole text.
C3_OversizedKept ==
    (pc = "done" /\ chunk_size >= 1 /\ Len(strip(input)) > chunk_size
        /\ NoSeparator(strip(input)))
    => chunks = <<strip(input)>>

\* C4: the returned list holds only non-empty, trimmed chunks, and it is the
\* empty list when the input is empty or whitespace only.
C4_NoEmptyChunk ==
    pc = "done" =>
        /\ \A k \in 1..Len(chunks) : chunks[k] # <<>> /\ strip(chunks[k]) = chunks[k]
        /\ strip(input) = <<>> => chunks = <<>>

\* C5: with chunk_size <= 0 and a non-empty text, split_text neither iterates
\* its loop nor returns: the call is rejected first.
C5_InvalidSizeRejected ==
    (chunk_size <= 0 /\ strip(input) # <<>>) => (iters = 0 /\ pc # "done")

\* C8: in an iteration that cuts a non-final chunk, if the window
\* text[start:end] holds an ending character after start, the cut is made
\* immediately after an ending character.
C8_EndingBeforeSpace ==
    [][(/\ LoopStep
        /\ end' < Len(text)
        /\ \E p \in (start + 1)..(end' - 1) : text[p + 1] \in EndingChars)
       => text[best_split'] \in EndingChars]_vars

\* C9: for chunk_size >= 1 every iteration of the loop moves start forward,
\* the loop runs at most len(text) times, and the call returns.
C9_Terminates ==
    /\ [][LoopStep => start' > start]_vars
    /\ [](iters <= Len(text))
    /\ <>(pc = "done")

\* a call that returned after several iterations of the loop
C9_Witness == pc = "done" /\ iters >= 3 /\ chunk_size >= 2

---------------------------------------------------------------------------
(* Properties of tts_and_send and create_male_voice_tts *)

\* how many times chunk k was handed to gTTS
Synthesized(k) == Cardinality({j \in 1..Len(tts_log) : tts_log[j] = k})

\* C6: within a request the k-th delivery carries the audio synthesized for
\* chunk k, which gTTS has been called for, and its caption shows part k of
\* total_chunks = len(chunks) when there are several chunks; so each chunk is
\* delivered at most once and deliveries follow the chunk order.
C6_OrderedDelivery ==
    /\ Len(sent) <= Len(chunks)
    /\ \A k \in 1..Len(sent) :
        /\ sent[k].audio.chunk = k
        /\ Synthesized(k) >= 1
        /\ Len(chunks) > 1 => sent[k].caption = [part |-> k, of |-> Len(chunks)]
        /\ Len(chunks) = 1 => sent[k].caption = [part |-> 0, of |-> 0]

\* a request of three chunks returned with all three delivered
C6_Witness == tpc = "returned" /\ Len(chunks) = 3 /\ Len(sent) = 3

\* C7 as claimed: when the request returns, gTTS has been invoked exactly once
\* for every chunk split_text emitted, whatever failed on the way.
C7_ExactlyOncePerChunk ==
    tpc = "returned" => \A k \in 1..Len(chunks) : Synthesized(k) = 1

\* C7 as amended: gTTS is never invoked twice for a chunk; a request that
\* returns without an exception has invoked it exactly once for every chunk;
\* a request abandoned at chunk i has invoked it exactly once for the chunks
\* before i and never for the chunks after i, and for chunk i itself exactly
\* once when synthesis, voice processing or delivery raised, never when the
\* temporary files of chunk i could not be made.
C7_OncePerAttemptedChunk ==
    /\ \A k \in 1..Len(chunks) : Synthesized(k) <= 1
    /\ tpc = "returned" =>
        \A k \in 1..Len(chunks) :
            Synthesized(k) = IF \/ exc = "none"
                                \/ k < i
                                \/ k = i /\ exc # "OSError"
                             THEN 1 ELSE 0

\* a request of three chunks abandoned when the delivery of chunk 2 failed
C7_Witness ==
    /\ tpc = "returned"
    /\ exc = "SendError"
    /\ Len(chunks) = 3
    /\ i = 2
    /\ Synthesized(3) = 0

\* C10: whatever libraries are installed, a create_male_voice_tts call whose
\* gTTS synthesis succeeded returns a path and does not raise.
C10_ReturnsWhenSynthesized ==
    (voice.called /\ voice.gtts_ok) => ~voice.raised

\* C11: no temporary file outlives its request.  When tts_and_send returns,
\* with or without an exception, os.remove has been called on every temporary
\* file made for the request, and none of them is on disk.
C11_NoTempFileOutlives ==
    tpc = "returned" =>
        \A p \in 1..tmp_count : p \in removed /\ p \notin DOMAIN disk

=============================================================================
